---- MODULE Spec2Model ----
(***************************************************************************)
(* State-machine model of the DAgger training-iteration orchestration of   *)
(* general/algorithms/dagger_prediction.py: DaggerPrediction.run (resume   *)
(* resolver, data loading, catch-up training, training loop) and           *)
(* DaggerPrediction._run_itr (rollouts, quality gate, persistence).        *)
(* The process may be stopped between any two steps and started again on   *)
(* the same run directory.                                                 *)
(***************************************************************************)
EXTENDS Integers, Sequences, FiniteSets, TLC

\* ------------------------------------------------------------------ bounds
\* self.max_iter
MaxIter == 3
\* self.conditions.length
CondLength == 2
\* self.conditions.repeats
Repeats == 2
\* params['prediction']['dagger']['T']
T == 2
\* rollouts the quality gate rejects, over the whole behaviour
MaxRejects == 1
\* times the process is started again on the same directory
MaxRestarts == 1
\* values a state takes
XMod == 2
\* values an action takes
UMod == 3
\* largest perturbation a control-noise generator adds
MaxNoise == 1

\* Python's None for an iteration index (model_file = None, old_model_file = None)
None == -2

VARIABLES
    planner_type,       \* self.planner_type
    init_data,          \* params['prediction']['dagger'].get('init_data') is not None
    label_with_noise,   \* params['prediction']['dagger']['label_with_noise']
    noise_valid,        \* params['prediction']['dagger']['control_noise']['type'] is a known kind
    randomize,          \* self.world.randomize
    ckptFiles,          \* disk: iterations whose model_itr_N.ckpt exists
    samplesFiles,       \* disk: itr -> content of samples_itr_N.npz, for those that exist
    worldsFiles,        \* disk: itr -> content of worlds_itr_N.pkl
    mpcsFiles,          \* disk: itr -> content of mpcs_itr_N.pkl
    dirs,               \* disk: iterations whose directory itrN exists
    pc,                 \* position of the process in run() / _run_itr()
    restarts,           \* times the process was started again
    model_start_itr, samples_start_itr, model_file, start_itr,   \* locals of run()
    itr,                \* loop variable of run()
    cond, rep, t,       \* loop variables of _run_itr()
    samples, world_infos, mpc_infos,     \* lists of _run_itr()
    sample_T,           \* the Sample under construction: X, U, O by timestep
    uExec,              \* action returned by the noisy query, by timestep
    queries,            \* controller queries made, by timestep
    evolved,            \* calls of dynamics.evolve in this rollout: <<t, x, u>>
    collidedAt,         \* timestep at which world.is_collision answered true
    sample,             \* the finished rollout: sample_T.match(slice(0, t + 1))
    created,            \* what lines 232-233 constructed for this rollout, in order
    mpc_policy,         \* the controller instance held by _run_itr (0: none)
    control_noise,      \* the control-noise generator held by _run_itr (0: none)
    mpcMade,            \* controller instances constructed in this iteration
    noiseMade,          \* control-noise generators constructed in this iteration
    noiseUse,           \* <<generator, rollout attempt>> of the noisy queries of this iteration
    hw,                 \* position in _ros_is_good_rollout
    good_cb, bad_cb,    \* good_rollout_callback, bad_rollout_callback: a message is pending
    good_rollout, bad_rollout,   \* locals of _ros_is_good_rollout
    answer,             \* what _ros_is_good_rollout returned
    goodSince, badSince,         \* a message arrived on the topic since the call
    staleGood, staleBad,         \* a message was pending when the call began
    attempt,            \* rollouts already executed for the current slot
    gateLog,            \* answers of _is_good_rollout in this iteration, in order
    rejections,         \* rollouts the quality gate has rejected so far
    loaded,             \* checkpoint given to bootstrap.load in this process
    aggData,            \* artifacts given to bootstrap.add_data in this process
    events,             \* what this process did, in order
    resetLog,           \* calls of _reset_world in this iteration: <<cond, rep>>, in order
    raised,             \* iteration in which a collaborator call raised
    shutdown,           \* rospy.is_shutdown()
    epochsLog,          \* <<kind, epochs>> of every training step on this directory
    startCkpts, startSamples, startDirs  \* the disk as this process found it

disk == <<ckptFiles, samplesFiles, worldsFiles, mpcsFiles, dirs>>
config == <<planner_type, init_data, label_with_noise, noise_valid, randomize>>
runLocals == <<model_start_itr, samples_start_itr, model_file, start_itr, itr>>
itrLocals == <<cond, rep, t, samples, world_infos, mpc_infos, attempt, gateLog>>
rollout == <<sample_T, uExec, queries, evolved, collidedAt, sample, created>>
ghostStart == <<startCkpts, startSamples, startDirs>>
ghostCalls == <<resetLog, raised, shutdown, epochsLog>>
instances == <<mpc_policy, control_noise, mpcMade, noiseMade, noiseUse>>
hwGate == <<hw, good_cb, bad_cb, good_rollout, bad_rollout, answer, goodSince, badSince,
            staleGood, staleBad>>
vars == <<config, disk, pc, restarts, rejections, runLocals, itrLocals, rollout,
          loaded, aggData, events, instances, hwGate, ghostStart, ghostCalls>>

Iters == 0 .. (MaxIter - 1)
PlannerTypes == {"primitives", "randomwalk"}

\* ------------------------------------------------------------- pure helpers
SetMax(S) == CHOOSE m \in S : \A x \in S : x <= m

\* the scan without the increment at the break
RECURSIVE ScanDownNoIncrement(_, _)
ScanDownNoIncrement(i, exists) ==
    IF i \in exists THEN i
    ELSE IF i <= 0 THEN 0
    ELSE ScanDownNoIncrement(i - 1, exists)

\* for i in xrange(max_iter-1, -1, -1): if exists(i): i += 1; break
\* The loop variable keeps its last value (0) when nothing is found.
RECURSIVE ScanDown(_, _)
ScanDown(i, exists) ==
    IF i \in exists THEN i + 1
    ELSE IF i <= 0 THEN 0
    ELSE ScanDown(i - 1, exists)

\* The for-else branch: model_file stays the file of the break, or None.
RECURSIVE ScanFile(_, _)
ScanFile(i, exists) ==
    IF i \in exists THEN i
    ELSE IF i <= 0 THEN None
    ELSE ScanFile(i - 1, exists)

\* the assertion without its bound on how far the samples may be ahead
ResumeConsistentLoose(m, s) == m <= s \/ (m = 1 /\ s = 0)

\* assert (model_start_itr == samples_start_itr or ... )
ResumeConsistent(m, s) ==
    \/ m = s
    \/ m = s - 1
    \/ (m = 1 /\ s = 0)

\* a file written at key i of an iteration-indexed store
WriteFile(f, i, data) ==
    [k \in (DOMAIN f) \cup {i} |-> IF k = i THEN data ELSE f[k]]

\* the slots of one iteration, in the order _run_itr fills them
RECURSIVE SlotsFrom(_, _)
SlotsFrom(c, r) ==
    IF c >= CondLength THEN <<>>
    ELSE IF r >= Repeats THEN SlotsFrom(c + 1, 0)
    ELSE <<[cond |-> c, rep |-> r]>> \o SlotsFrom(c, r + 1)

\* an Iteration Record left by an earlier, complete iteration
FullSamples == [k \in 1 .. Len(SlotsFrom(0, 0)) |->
                  [cond |-> SlotsFrom(0, 0)[k].cond, rep |-> SlotsFrom(0, 0)[k].rep,
                   gen |-> 0]]
FullInfos == [k \in 1 .. Len(SlotsFrom(0, 0)) |->
                  [cond |-> SlotsFrom(0, 0)[k].cond, rep |-> SlotsFrom(0, 0)[k].rep,
                   gen |-> 0]]


\* marks the external bootstrap dataset among the artifacts given to add_data
InitDataset == -1

\* the record of one call, for the log of what the process did
Event(kind, a, b, e) == [ev |-> kind, a |-> a, b |-> b, e |-> e]

\* ------------------------------------------------------------ collaborators
\* Conditions.get_cond(cond, rep): the initial state of a slot
GetCond(c, r) == (c + r) % XMod

\* the controller's nominal action at state x
Nominal(x) == (x + 1) % UMod

\* Policy.act: return u + noise.sample(u)
Act(x, noise) == (Nominal(x) + noise) % UMod

\* the observation the agent returns with the action
Observe(x) == x

\* Dynamics.evolve(x, u)
Evolve(x, u) == (x + u) % XMod

\* PredictionModel.train(old_model_file, new_model_file, epochs) leaves the
\* checkpoint new_model_file on disk
TrainWrites(ckpts, new) == ckpts \cup {new}

\* ------------------------------------------------------------------- memory
\* no controller or noise generator constructed yet
NoInstances ==
    /\ mpc_policy = 0 /\ control_noise = 0
    /\ mpcMade = 0 /\ noiseMade = 0 /\ noiseUse = {}

\* _ros_is_good_rollout is not being executed
HwIdle ==
    /\ hw = "idle"
    /\ good_cb = FALSE /\ bad_cb = FALSE
    /\ good_rollout = FALSE /\ bad_rollout = FALSE
    /\ answer = "" /\ goodSince = FALSE /\ badSince = FALSE
    /\ staleGood = FALSE /\ staleBad = FALSE

\* what a freshly started process holds
FreshMemory ==
    /\ pc = "start"
    /\ model_start_itr = None /\ samples_start_itr = None /\ model_file = None
    /\ start_itr = None /\ itr = None
    /\ cond = 0 /\ rep = 0 /\ t = 0 /\ attempt = 0 /\ gateLog = <<>>
    /\ samples = <<>> /\ world_infos = <<>> /\ mpc_infos = <<>>
    /\ sample_T = [X |-> <<>>, U |-> <<>>, O |-> <<>>]
    /\ uExec = <<>> /\ queries = <<>> /\ evolved = <<>> /\ sample = <<>>
    /\ created = <<>> /\ resetLog = <<>> /\ raised = None /\ shutdown = FALSE
    /\ NoInstances
    /\ HwIdle
    /\ collidedAt = None
    /\ loaded = None /\ aggData = <<>> /\ events = <<>>
    /\ startCkpts = ckptFiles /\ startSamples = DOMAIN samplesFiles
    /\ startDirs = dirs

\* any run directory: checkpoints and complete Iteration Records at any indices
Init ==
    /\ planner_type \in PlannerTypes
    /\ init_data \in BOOLEAN
    /\ label_with_noise \in BOOLEAN
    /\ noise_valid \in BOOLEAN
    /\ randomize \in BOOLEAN
    /\ ckptFiles \in SUBSET Iters
    /\ \E S \in SUBSET Iters :
          /\ samplesFiles = [i \in S |-> FullSamples]
          /\ worldsFiles = [i \in S |-> FullInfos]
          /\ mpcsFiles = [i \in S |-> FullInfos]
          /\ dirs = S \cup ckptFiles
    /\ restarts = 0 /\ rejections = 0 /\ epochsLog = <<>>
    /\ FreshMemory

\* a new run directory
InitFresh ==
    /\ planner_type \in PlannerTypes
    /\ init_data \in BOOLEAN
    /\ label_with_noise \in BOOLEAN
    /\ noise_valid \in BOOLEAN
    /\ randomize \in BOOLEAN
    /\ ckptFiles = {}
    /\ samplesFiles = <<>> /\ worldsFiles = <<>> /\ mpcsFiles = <<>>
    /\ dirs = {}
    /\ restarts = 0 /\ rejections = 0 /\ epochsLog = <<>>
    /\ FreshMemory

\* -------------------------------------------------------------------- run()
\* lines 142-159: the two downward scans and the consistency assertion
Resolve ==
    /\ pc = "start"
    /\ model_start_itr' = ScanDown(MaxIter - 1, ckptFiles)
    /\ model_file' = ScanFile(MaxIter - 1, ckptFiles)
    /\ samples_start_itr' = ScanDown(MaxIter - 1, DOMAIN samplesFiles)
    /\ pc' = IF ResumeConsistent(model_start_itr', samples_start_itr')
             THEN "load" ELSE "assert_resume"
    /\ UNCHANGED <<config, disk, restarts, rejections, start_itr, itr, itrLocals, rollout,
                   loaded, aggData, events, instances, hwGate, ghostStart, ghostCalls>>

\* lines 161-164: load the checkpoint the scan found
LoadModel ==
    /\ pc = "load"
    /\ IF model_file # None
       THEN /\ loaded' = model_file
            /\ events' = Append(events, Event("load", model_file, None, ""))
       ELSE UNCHANGED <<loaded, events>>
    /\ pc' = "add_prev"
    /\ UNCHANGED <<config, disk, restarts, rejections, runLocals, itrLocals, rollout,
                   aggData, instances, hwGate, ghostStart, ghostCalls>>

\* the list taken one iteration too far
PrevSampleFilesInclusive(s) == [k \in 1 .. (s + 1) |-> k - 1]

\* line 168: [self._itr_samples_file(itr) for itr in xrange(samples_start_itr)]
PrevSampleFiles(s) == [k \in 1 .. s |-> k - 1]

\* lines 166-170: hand the samples files of iterations 0..samples_start_itr-1
\* to the aggregator; _itr_samples_file(itr) creates each iteration directory;
\* the assertion is about a generator object and cannot fail
AddPrevData ==
    /\ pc = "add_prev"
    /\ IF samples_start_itr > 0
       THEN /\ dirs' = dirs \cup (0 .. (samples_start_itr - 1))
            /\ aggData' = aggData \o PrevSampleFiles(samples_start_itr)
            /\ events' = Append(events, Event("add_prev", samples_start_itr, None, ""))
       ELSE UNCHANGED <<dirs, aggData, events>>
    /\ pc' = "add_init"
    /\ UNCHANGED <<config, ckptFiles, samplesFiles, worldsFiles, mpcsFiles, restarts, rejections,
                   runLocals, itrLocals, rollout, loaded, instances, hwGate, ghostStart, ghostCalls>>

\* lines 171-179: add the external bootstrap dataset when one is configured
AddInitData ==
    /\ pc = "add_init"
    /\ IF init_data
       THEN /\ dirs' = dirs \cup {0}
            /\ aggData' = Append(aggData, InitDataset)
            /\ events' = Append(events, Event("add_init", None, None, ""))
       ELSE UNCHANGED <<dirs, aggData, events>>
    /\ pc' = "catchup"
    /\ UNCHANGED <<config, ckptFiles, samplesFiles, worldsFiles, mpcsFiles, restarts, rejections,
                   runLocals, itrLocals, rollout, loaded, instances, hwGate, ghostStart, ghostCalls>>

\* the bootstrap case taken for the pair (1, 0)
CatchUpNeededDegenerate(m, s, init) ==
    \/ m = s - 1
    \/ (s = 0 /\ m = 1 /\ init)

\* the condition without its samples-ahead-of-model case
CatchUpNeededBootstrapOnly(m, s, init) == s = 0 /\ m = 0 /\ init

\* lines 182-183: the condition of the catch-up training step
CatchUpNeeded(m, s, init) ==
    \/ m = s - 1
    \/ (s = 0 /\ m = 0 /\ init)

\* line 186: new_model_file of the catch-up training step
CatchUpNewFile(m) == m

\* line 184: old_model_file of the catch-up training step
CatchUpOldFile(m, s) == IF s <= 0 THEN None ELSE m

\* line 187: epochs of the catch-up training step
CatchUpEpochs == "epochs"

\* lines 181-188: the catch-up training step, then start_itr
CatchUp ==
    /\ pc = "catchup"
    /\ IF CatchUpNeeded(model_start_itr, samples_start_itr, init_data)
       THEN /\ dirs' = dirs \cup {CatchUpNewFile(model_start_itr)}
            /\ ckptFiles' = TrainWrites(ckptFiles, CatchUpNewFile(model_start_itr))
            /\ events' = Append(events,
                            Event("train",
                                  CatchUpOldFile(model_start_itr, samples_start_itr),
                                  CatchUpNewFile(model_start_itr), CatchUpEpochs))
            /\ epochsLog' = Append(epochsLog,
                                   <<IF samples_start_itr <= 0 THEN "bootstrap" ELSE "catchup",
                                     CatchUpEpochs>>)
       ELSE UNCHANGED <<dirs, ckptFiles, events, epochsLog>>
    /\ start_itr' = samples_start_itr
    /\ itr' = samples_start_itr
    /\ pc' = "loop"
    /\ UNCHANGED <<config, samplesFiles, worldsFiles, mpcsFiles, restarts, rejections,
                   model_start_itr, samples_start_itr, model_file, itrLocals, rollout,
                   loaded, aggData, instances, hwGate, ghostStart, resetLog, raised, shutdown>>

\* ---------------------------------------------------------- training loop
Terminal == {"done", "assert_resume", "assert_finite", "error", "config_error"}

\* the loop stopped one iteration early
LoopContinuesEarlyStop(i) == i < MaxIter - 1

\* line 191: xrange(start_itr, self.max_iter) has an iteration i
LoopContinues(i) == i < MaxIter

\* line 191, loop exhausted: run() returns
LoopExit ==
    /\ pc = "loop"
    /\ ~LoopContinues(itr)
    /\ pc' = "done"
    /\ UNCHANGED <<config, disk, restarts, rejections, runLocals, itrLocals, rollout,
                   loaded, aggData, events, instances, hwGate, ghostStart, ghostCalls>>

\* lines 191-197 and 212-221: next iteration, _run_itr(itr) starts
RunItrBegin ==
    /\ pc = "loop"
    /\ LoopContinues(itr)
    /\ samples' = <<>> /\ world_infos' = <<>> /\ mpc_infos' = <<>>
    /\ cond' = 0 /\ rep' = 0 /\ attempt' = 0 /\ gateLog' = <<>>
    /\ resetLog' = <<>>
    /\ events' = Append(events, Event("collect", itr, None, ""))
    /\ pc' = IF CondLength > 0 /\ Repeats > 0 THEN "rollout_begin" ELSE "save_samples"
    /\ UNCHANGED <<config, disk, restarts, rejections, runLocals, t, rollout,
                   loaded, aggData, hwGate, ghostStart, raised, shutdown, epochsLog>>
    /\ mpc_policy' = 0 /\ control_noise' = 0
    /\ mpcMade' = 0 /\ noiseMade' = 0 /\ noiseUse' = {}

\* line 232: mpc_policy = self._create_mpc(itr, x0), a new instance each time
NewMpc(held, made) == made + 1

\* the generator constructed once and kept for the rollouts that follow
NewNoiseKept(held, made) == IF held = 0 THEN made + 1 ELSE held

\* line 233: control_noise = self._create_control_noise(), a new instance
\* each time
NewNoise(held, made) == made + 1

\* the reset made for the first slot only, whatever world.randomize says
ResetNeededFirstSlot(c, r, rnd) == c = 0 /\ r = 0

\* line 225: the world is reset before the rollout of slot (c, r)
ResetNeeded(c, r, rnd) == (c = 0 /\ r = 0) \/ rnd

\* lines 297-313: _create_control_noise returns a generator for a known kind
\* and raises for any other
NoiseCreated(valid) == IF valid THEN <<"control_noise">> ELSE <<>>

\* lines 224-233: world reset, initial state, fresh Sample, controller, then
\* the control-noise generator, which raises for an unknown kind
RolloutBegin ==
    /\ pc = "rollout_begin"
    /\ resetLog' = IF ResetNeeded(cond, rep, randomize)
                   THEN Append(resetLog, <<cond, rep>>) ELSE resetLog
    /\ sample_T' = [X |-> (0 :> GetCond(cond, rep)), U |-> <<>>, O |-> <<>>]
    /\ uExec' = <<>> /\ queries' = <<>> /\ evolved' = <<>> /\ sample' = <<>>
    /\ created' = <<"mpc">> \o NoiseCreated(noise_valid)
    /\ collidedAt' = None
    /\ t' = 0
    /\ pc' = IF noise_valid THEN "step" ELSE "config_error"
    /\ UNCHANGED <<config, disk, restarts, rejections, runLocals, cond, rep, samples,
                   world_infos, mpc_infos, attempt, gateLog, loaded, aggData, events,
                   hwGate, ghostStart, raised, shutdown, epochsLog>>
    /\ mpc_policy' = NewMpc(mpc_policy, mpcMade)
    /\ mpcMade' = mpcMade + 1
    /\ IF noise_valid
       THEN /\ control_noise' = NewNoise(control_noise, noiseMade)
            /\ noiseMade' = IF control_noise' > noiseMade THEN noiseMade + 1 ELSE noiseMade
       ELSE UNCHANGED <<control_noise, noiseMade>>
    /\ noiseUse' = noiseUse

\* the label taken from the noisy query whatever label_with_noise says
LabelActionExecuted(x, u, lwn) == u

\* lines 248-251: the action recorded as label
LabelAction(x, u, lwn) == IF lwn THEN u ELSE Act(x, 0)

\* lines 243 and 251: the controller queries of one timestep, by noise argument
Queries(lwn) == IF lwn THEN <<"control_noise">> ELSE <<"control_noise", "zero">>

\* the state advanced after a collision too
EvolveNeededAlways(tt, collided) == tt < T - 1

\* lines 256-260: the state advances unless the rollout ended or t is the last step
EvolveNeeded(tt, collided) == ~collided /\ tt < T - 1

\* lines 236-266: one pass of the timestep loop; noise is what the control-noise
\* generator adds, collided what world.is_collision answers
Timestep(noise, collided) ==
    /\ pc = "step"
    /\ LET x0 == sample_T.X[t]
           u == Act(x0, noise)
           u_label == LabelAction(x0, u, label_with_noise)
           o == Observe(x0)
       IN /\ uExec' = (t :> u) @@ uExec
          /\ queries' = (t :> Queries(label_with_noise)) @@ queries
          /\ IF EvolveNeeded(t, collided)
             THEN /\ sample_T' = [X |-> ((t + 1) :> Evolve(x0, u)) @@ sample_T.X,
                                  U |-> (t :> u_label) @@ sample_T.U,
                                  O |-> (t :> o) @@ sample_T.O]
                  /\ evolved' = Append(evolved, <<t, x0, u>>)
             ELSE /\ sample_T' = [X |-> sample_T.X,
                                  U |-> (t :> u_label) @@ sample_T.U,
                                  O |-> (t :> o) @@ sample_T.O]
                  /\ evolved' = evolved
    /\ sample' = sample /\ created' = created
    /\ collidedAt' = IF collided THEN t ELSE collidedAt
    /\ IF collided \/ t + 1 >= T
       THEN /\ t' = t
            /\ pc' = "finish"
       ELSE /\ t' = t + 1
            /\ pc' = "step"
    /\ UNCHANGED <<config, disk, restarts, rejections, runLocals, cond, rep, samples,
                   world_infos, mpc_infos, attempt, gateLog, loaded, aggData, events,
                   hwGate, ghostStart, ghostCalls>>
    /\ noiseUse' = noiseUse \cup {<<control_noise, Len(gateLog) + 1>>}
    /\ UNCHANGED <<mpc_policy, control_noise, mpcMade, noiseMade>>

\* line 271: sample = sample_T.match(slice(0, t + 1))
SampleLength(tt) == tt + 1

\* the while loop with rep <= repeats for its condition
SlotAfterInclusive(c, r) ==
    IF r <= Repeats THEN [cond |-> c, rep |-> r] ELSE [cond |-> c + 1, rep |-> 0]

\* lines 220-222: the slot the while and for loops reach with rep = r in
\* condition c, and where _run_itr goes from there
SlotAfter(c, r) ==
    IF r < Repeats THEN [cond |-> c, rep |-> r] ELSE [cond |-> c + 1, rep |-> 0]

PcAfter(c, r) ==
    IF SlotAfter(c, r).cond < CondLength THEN "rollout_begin" ELSE "save_samples"

\* lines 271-273: the sample cut to its length, world and controller metadata
RolloutFinish ==
    /\ pc = "finish"
    /\ sample' = <<[cond |-> cond, rep |-> rep, gen |-> attempt, len |-> SampleLength(t)]>>
    /\ sample_T' = [X |-> <<>>, U |-> <<>>, O |-> <<>>]
    /\ uExec' = <<>> /\ queries' = <<>> /\ evolved' = <<>> /\ created' = <<>>
    /\ pc' = "gate"
    /\ UNCHANGED <<config, disk, restarts, rejections, runLocals, itrLocals, collidedAt,
                   loaded, aggData, events, instances, hwGate, ghostStart, ghostCalls>>

\* a rejection that advances the repetition
RepAfterRejectNext(r) == r + 1

\* line 277: continue leaves rep as it is
RepAfterReject(r) == r

\* lines 275-277: the quality gate rejects the rollout; the slot is retried
RolloutRejected ==
    /\ pc = "gate"
    /\ ~shutdown
    /\ rejections < MaxRejects
    /\ rejections' = rejections + 1
    /\ attempt' = attempt + 1
    /\ gateLog' = Append(gateLog, [cond |-> cond, rep |-> rep, gen |-> attempt,
                                   good |-> FALSE, finite |-> "unchecked"])
    /\ rep' = SlotAfter(cond, RepAfterReject(rep)).rep
    /\ cond' = SlotAfter(cond, RepAfterReject(rep)).cond
    /\ t' = 0
    /\ sample_T' = [X |-> <<>>, U |-> <<>>, O |-> <<>>]
    /\ uExec' = <<>> /\ queries' = <<>> /\ evolved' = <<>> /\ sample' = <<>>
    /\ created' = <<>>
    /\ collidedAt' = None
    /\ pc' = PcAfter(cond, RepAfterReject(rep))
    /\ UNCHANGED <<config, disk, restarts, runLocals, samples, world_infos,
                   mpc_infos, loaded, aggData, events, instances, hwGate, ghostStart, ghostCalls>>

\* probcoll_rccar.py lines 91-101 and 83-89, then line 275-277 here: the
\* shutdown flag is up when the while condition of the wait is evaluated, so
\* _ros_is_good_rollout falls off its loop and returns None; `not None` is
\* true and the slot is retried
GateAborted ==
    /\ pc = "gate"
    /\ rejections < MaxRejects
    /\ shutdown' = TRUE
    /\ rejections' = rejections + 1
    /\ attempt' = attempt + 1
    /\ gateLog' = Append(gateLog, [cond |-> cond, rep |-> rep, gen |-> attempt,
                                   good |-> FALSE, finite |-> "unchecked"])
    /\ rep' = SlotAfter(cond, RepAfterReject(rep)).rep
    /\ cond' = SlotAfter(cond, RepAfterReject(rep)).cond
    /\ t' = 0
    /\ sample_T' = [X |-> <<>>, U |-> <<>>, O |-> <<>>]
    /\ uExec' = <<>> /\ queries' = <<>> /\ evolved' = <<>> /\ sample' = <<>>
    /\ created' = <<>>
    /\ collidedAt' = None
    /\ pc' = PcAfter(cond, RepAfterReject(rep))
    /\ UNCHANGED <<config, disk, restarts, runLocals, samples, world_infos,
                   mpc_infos, loaded, aggData, events, instances, hwGate, ghostStart,
                   resetLog, raised, epochsLog>>

\* probcoll_rccar.py line 101: the shutdown arrives while the wait sleeps and
\* rospy.sleep raises; nothing catches it
GateInterrupted ==
    /\ pc = "gate"
    /\ ~shutdown
    /\ shutdown' = TRUE
    /\ pc' = "error"
    /\ cond' = 0 /\ rep' = 0 /\ t' = 0 /\ attempt' = 0 /\ gateLog' = <<>>
    /\ samples' = <<>> /\ world_infos' = <<>> /\ mpc_infos' = <<>>
    /\ sample_T' = [X |-> <<>>, U |-> <<>>, O |-> <<>>]
    /\ uExec' = <<>> /\ queries' = <<>> /\ evolved' = <<>> /\ sample' = <<>>
    /\ created' = <<>>
    /\ collidedAt' = None
    /\ resetLog' = <<>>
    /\ UNCHANGED <<config, disk, restarts, rejections, runLocals,
                   loaded, aggData, events, hwGate, ghostStart, raised, epochsLog>>
    /\ mpc_policy' = 0 /\ control_noise' = 0
    /\ mpcMade' = 0 /\ noiseMade' = 0 /\ noiseUse' = {}

\* line 289: rep += 1
RepAfterAccept(r) == r + 1

\* lines 279-281: what the three lists gain from an accepted rollout
Accepted(smp) == [cond |-> smp.cond, rep |-> smp.rep, gen |-> smp.gen]

\* the assertion left out
AssertFiniteSkipped(finite) == TRUE

\* line 283: assert(samples[-1].isfinite()) lets the run go on
AssertFinite(finite) == finite

\* lines 275-289: the quality gate accepts the rollout; finite is what
\* samples[-1].isfinite() answers
RolloutAccepted(finite) ==
    /\ pc = "gate"
    /\ ~shutdown
    /\ samples' = Append(samples, Accepted(sample[1]))
    /\ world_infos' = Append(world_infos, Accepted(sample[1]))
    /\ mpc_infos' = Append(mpc_infos, Accepted(sample[1]))
    /\ gateLog' = Append(gateLog, [cond |-> cond, rep |-> rep, gen |-> attempt,
                                   good |-> TRUE,
                                   finite |-> IF finite THEN "finite" ELSE "nonfinite"])
    /\ t' = 0
    /\ sample_T' = [X |-> <<>>, U |-> <<>>, O |-> <<>>]
    /\ uExec' = <<>> /\ queries' = <<>> /\ evolved' = <<>> /\ sample' = <<>>
    /\ created' = <<>>
    /\ collidedAt' = None
    /\ IF ~AssertFinite(finite)
       THEN /\ pc' = "assert_finite"
            /\ UNCHANGED <<cond, rep, attempt>>
       ELSE /\ pc' = PcAfter(cond, RepAfterAccept(rep))
            /\ attempt' = 0
            /\ rep' = SlotAfter(cond, RepAfterAccept(rep)).rep
            /\ cond' = SlotAfter(cond, RepAfterAccept(rep)).cond
    /\ UNCHANGED <<config, disk, restarts, rejections, runLocals, loaded, aggData,
                   events, instances, hwGate, ghostStart, ghostCalls>>

\* line 291: _itr_save_samples(itr, samples)
SaveSamples ==
    /\ pc = "save_samples"
    /\ samplesFiles' = WriteFile(samplesFiles, itr, samples)
    /\ dirs' = dirs \cup {itr}
    /\ events' = Append(events, Event("samples", itr, None, ""))
    /\ pc' = "save_worlds"
    /\ UNCHANGED <<config, ckptFiles, worldsFiles, mpcsFiles, restarts, rejections, runLocals,
                   itrLocals, rollout, loaded, aggData, instances, hwGate, ghostStart, ghostCalls>>

\* line 292: _itr_save_worlds(itr, world_infos)
SaveWorlds ==
    /\ pc = "save_worlds"
    /\ worldsFiles' = WriteFile(worldsFiles, itr, world_infos)
    /\ events' = Append(events, Event("worlds", itr, None, ""))
    /\ pc' = "save_mpcs"
    /\ UNCHANGED <<config, ckptFiles, samplesFiles, mpcsFiles, dirs, restarts, rejections, runLocals,
                   itrLocals, rollout, loaded, aggData, instances, hwGate, ghostStart, ghostCalls>>

\* line 293: _itr_save_mpcs(itr, mpc_infos)
SaveMpcs ==
    /\ pc = "save_mpcs"
    /\ mpcsFiles' = WriteFile(mpcsFiles, itr, mpc_infos)
    /\ events' = Append(events, Event("mpcs", itr, None, ""))
    /\ pc' = "final_reset"
    /\ UNCHANGED <<config, ckptFiles, samplesFiles, worldsFiles, dirs, restarts, rejections,
                   runLocals, itrLocals, rollout, loaded, aggData, instances, hwGate, ghostStart, ghostCalls>>

\* line 295: leave the world as it was; _run_itr returns
FinalReset ==
    /\ pc = "final_reset"
    /\ samples' = <<>> /\ world_infos' = <<>> /\ mpc_infos' = <<>>
    /\ cond' = 0 /\ rep' = 0 /\ gateLog' = <<>>
    /\ resetLog' = Append(resetLog, <<0, 0>>)
    /\ pc' = "after_itr"
    /\ UNCHANGED <<config, disk, restarts, rejections, runLocals, t, attempt, rollout,
                   loaded, aggData, events, hwGate, ghostStart, raised, shutdown, epochsLog>>
    /\ mpc_policy' = 0 /\ control_noise' = 0
    /\ mpcMade' = 0 /\ noiseMade' = 0 /\ noiseUse' = {}

\* line 203 with planner_type 'randomwalk': no data added, no training
SkipTraining ==
    /\ pc = "after_itr"
    /\ planner_type = "randomwalk"
    /\ itr' = itr + 1
    /\ pc' = "loop"
    /\ UNCHANGED <<config, disk, restarts, rejections, model_start_itr, samples_start_itr,
                   model_file, start_itr, itrLocals, rollout, loaded, aggData, events,
                   instances, hwGate, ghostStart, ghostCalls>>

\* lines 203-205: bootstrap.add_data([samples file of itr])
AddData ==
    /\ pc = "after_itr"
    /\ planner_type # "randomwalk"
    /\ aggData' = Append(aggData, itr)
    /\ events' = Append(events, Event("add", itr, None, ""))
    /\ pc' = "train"
    /\ UNCHANGED <<config, disk, restarts, rejections, runLocals, itrLocals, rollout, loaded,
                   instances, hwGate, ghostStart, ghostCalls>>

\* the training step seeded with the checkpoint it is about to write
LoopOldFileSame(i) == i

\* line 207: old_model_file of the training step of iteration i
LoopOldFile(i) == i - 1

\* line 208: new_model_file of the training step of iteration i
LoopNewFile(i) == i

\* line 209: epochs of the training step of iteration i
LoopEpochs(i) == IF i > 1 THEN "epochs" ELSE "init_epochs"

\* lines 206-209: the training step of iteration itr; then the next iteration
TrainItr ==
    /\ pc = "train"
    /\ dirs' = dirs \cup {LoopOldFile(itr), LoopNewFile(itr)}
    /\ ckptFiles' = TrainWrites(ckptFiles, LoopNewFile(itr))
    /\ events' = Append(events, Event("train", LoopOldFile(itr), LoopNewFile(itr),
                                      LoopEpochs(itr)))
    /\ epochsLog' = Append(epochsLog, <<"loop", LoopEpochs(itr)>>)
    /\ itr' = itr + 1
    /\ pc' = "loop"
    /\ UNCHANGED <<config, samplesFiles, worldsFiles, mpcsFiles, restarts, rejections,
                   model_start_itr, samples_start_itr, model_file, start_itr, itrLocals,
                   rollout, loaded, aggData, instances, hwGate, ghostStart, resetLog, raised, shutdown>>

\* ------------------------------------------------------- errors and restarts
\* the error caught in _run_itr and the rollout started again
CollaboratorErrorRetried ==
    /\ pc \in {"rollout_begin", "step", "finish"}
    /\ pc' = "rollout_begin"
    /\ t' = 0
    /\ sample_T' = [X |-> <<>>, U |-> <<>>, O |-> <<>>]
    /\ uExec' = <<>> /\ queries' = <<>> /\ evolved' = <<>> /\ sample' = <<>>
    /\ created' = <<>>
    /\ collidedAt' = None
    /\ raised' = itr
    /\ UNCHANGED <<config, disk, restarts, rejections, runLocals, cond, rep, samples,
                   world_infos, mpc_infos, attempt, gateLog, loaded, aggData, events,
                   instances, hwGate, ghostStart, resetLog, shutdown, epochsLog>>

\* a world, dynamics or controller call raises during a rollout; nothing in
\* run() or _run_itr catches it, and the locals of _run_itr go with its frame
CollaboratorError ==
    /\ pc \in {"rollout_begin", "step", "finish"}
    /\ pc' = "error"
    /\ cond' = 0 /\ rep' = 0 /\ t' = 0 /\ attempt' = 0 /\ gateLog' = <<>>
    /\ samples' = <<>> /\ world_infos' = <<>> /\ mpc_infos' = <<>>
    /\ sample_T' = [X |-> <<>>, U |-> <<>>, O |-> <<>>]
    /\ uExec' = <<>> /\ queries' = <<>> /\ evolved' = <<>> /\ sample' = <<>>
    /\ created' = <<>>
    /\ collidedAt' = None
    /\ resetLog' = <<>>
    /\ raised' = itr
    /\ UNCHANGED <<config, disk, restarts, rejections, runLocals,
                   loaded, aggData, events, hwGate, ghostStart, shutdown, epochsLog>>
    /\ mpc_policy' = 0 /\ control_noise' = 0
    /\ mpcMade' = 0 /\ noiseMade' = 0 /\ noiseUse' = {}

\* a process that starts: nothing resolved, loaded, added or collected yet
StartProcess ==
    /\ pc' = "start"
    /\ model_start_itr' = None /\ samples_start_itr' = None /\ model_file' = None
    /\ start_itr' = None /\ itr' = None
    /\ cond' = 0 /\ rep' = 0 /\ t' = 0 /\ attempt' = 0 /\ gateLog' = <<>>
    /\ samples' = <<>> /\ world_infos' = <<>> /\ mpc_infos' = <<>>
    /\ sample_T' = [X |-> <<>>, U |-> <<>>, O |-> <<>>]
    /\ uExec' = <<>> /\ queries' = <<>> /\ evolved' = <<>> /\ sample' = <<>>
    /\ created' = <<>>
    /\ collidedAt' = None
    /\ loaded' = None /\ aggData' = <<>> /\ events' = <<>>
    /\ startCkpts' = ckptFiles /\ startSamples' = DOMAIN samplesFiles
    /\ startDirs' = dirs
    /\ resetLog' = <<>> /\ raised' = None /\ shutdown' = FALSE
    /\ mpc_policy' = 0 /\ control_noise' = 0
    /\ mpcMade' = 0 /\ noiseMade' = 0 /\ noiseUse' = {}
    /\ hw' = "idle"
    /\ good_cb' = FALSE /\ bad_cb' = FALSE
    /\ good_rollout' = FALSE /\ bad_rollout' = FALSE
    /\ answer' = "" /\ goodSince' = FALSE /\ badSince' = FALSE
    /\ staleGood' = FALSE /\ staleBad' = FALSE

\* the process is stopped between two steps and started again on the same
\* directory with the same configuration; what it held in memory is lost
StopAndRestart ==
    /\ pc \notin Terminal
    /\ restarts < MaxRestarts
    /\ restarts' = restarts + 1
    /\ UNCHANGED <<config, disk, rejections, epochsLog>>
    /\ StartProcess

\* the program is started again after run() returned or raised
Restart ==
    /\ pc \in Terminal
    /\ restarts < MaxRestarts
    /\ restarts' = restarts + 1
    /\ UNCHANGED <<config, disk, rejections, epochsLog>>
    /\ StartProcess

Next ==
    \/ Resolve
    \/ LoadModel
    \/ AddPrevData
    \/ AddInitData
    \/ CatchUp
    \/ LoopExit
    \/ RunItrBegin
    \/ RolloutBegin
    \/ \E noise \in 0 .. MaxNoise, collided \in BOOLEAN : Timestep(noise, collided)
    \/ RolloutFinish
    \/ RolloutRejected
    \/ GateAborted
    \/ GateInterrupted
    \/ \E finite \in BOOLEAN : RolloutAccepted(finite)
    \/ SaveSamples
    \/ SaveWorlds
    \/ SaveMpcs
    \/ FinalReset
    \/ SkipTraining
    \/ AddData
    \/ TrainItr
    \/ CollaboratorError

\* one process on any run directory
Spec == Init /\ [][Next]_vars

NextRestart ==
    \/ Next
    \/ StopAndRestart
    \/ Restart

\* a new run directory, and processes stopped and started again on it
SpecRestart == InitFresh /\ [][NextRestart]_vars

\* ------------------------------------------- the wait of the hardware gate
\* what run() and _run_itr hold while _ros_is_good_rollout executes
runState == <<config, disk, pc, restarts, rejections, runLocals, itrLocals, rollout,
              loaded, aggData, events, instances, ghostStart, resetLog, raised, epochsLog>>

\* RosCallbackEmpty.get(): whether a message is pending
GetValue(pending) == pending

\* RosCallbackEmpty.get(): the pending message is consumed
GetLeaves(pending) == FALSE

\* a new run at line 275 for its first rollout: _is_good_rollout is called
AtFirstGate ==
    /\ planner_type = "primitives" /\ init_data = FALSE /\ label_with_noise = TRUE
    /\ noise_valid = TRUE /\ randomize = FALSE
    /\ ckptFiles = {} /\ samplesFiles = <<>> /\ worldsFiles = <<>> /\ mpcsFiles = <<>>
    /\ dirs = {}
    /\ pc = "gate" /\ restarts = 0 /\ rejections = 0
    /\ model_start_itr = 0 /\ samples_start_itr = 0 /\ model_file = None
    /\ start_itr = 0 /\ itr = 0
    /\ cond = 0 /\ rep = 0 /\ t = T - 1 /\ attempt = 0 /\ gateLog = <<>>
    /\ samples = <<>> /\ world_infos = <<>> /\ mpc_infos = <<>>
    /\ sample_T = [X |-> <<>>, U |-> <<>>, O |-> <<>>]
    /\ uExec = <<>> /\ queries = <<>> /\ evolved = <<>> /\ created = <<>>
    /\ sample = <<[cond |-> 0, rep |-> 0, gen |-> 0, len |-> T]>>
    /\ collidedAt = None
    /\ loaded = None /\ aggData = <<>>
    /\ events = <<Event("collect", 0, None, "")>>
    /\ mpc_policy = 1 /\ control_noise = 1 /\ mpcMade = 1 /\ noiseMade = 1
    /\ noiseUse = {<<1, 1>>}
    /\ startCkpts = {} /\ startSamples = {} /\ startDirs = {}
    /\ resetLog = <<<<0, 0>>>> /\ raised = None /\ epochsLog = <<>>

\* probcoll_rccar.py line 89: _ros_is_good_rollout is called; messages may be
\* pending on either topic from before the call
InitGate ==
    /\ AtFirstGate
    /\ shutdown = FALSE
    /\ hw = "called"
    /\ good_cb \in BOOLEAN /\ bad_cb \in BOOLEAN
    /\ staleGood = good_cb /\ staleBad = bad_cb
    /\ good_rollout = FALSE /\ bad_rollout = FALSE
    /\ answer = "" /\ goodSince = FALSE /\ badSince = FALSE

\* the call is still executing
Waiting == hw \in {"called", "discard_bad", "while", "read_good", "read_bad", "decide", "sleep"}

\* a message arrives on the good_rollout topic (subscriber callback)
PressGood ==
    /\ Waiting
    /\ good_cb' = TRUE /\ goodSince' = TRUE
    /\ UNCHANGED <<runState, shutdown, hw, bad_cb, good_rollout, bad_rollout, answer,
                   badSince, staleGood, staleBad>>

\* a message arrives on the bad_rollout topic (subscriber callback)
PressBad ==
    /\ Waiting
    /\ bad_cb' = TRUE /\ badSince' = TRUE
    /\ UNCHANGED <<runState, shutdown, hw, good_cb, good_rollout, bad_rollout, answer,
                   goodSince, staleGood, staleBad>>

\* rospy is shut down from outside
SignalShutdown ==
    /\ Waiting
    /\ ~shutdown
    /\ shutdown' = TRUE
    /\ UNCHANGED <<runState, hwGate>>

\* line 92: self.good_rollout_callback.get(), the value dropped
WaitDiscardGood ==
    /\ hw = "called"
    /\ good_cb' = GetLeaves(good_cb)
    /\ hw' = "discard_bad"
    /\ UNCHANGED <<runState, shutdown, bad_cb, good_rollout, bad_rollout, answer,
                   goodSince, badSince, staleGood, staleBad>>

\* line 93: self.bad_rollout_callback.get(), the value dropped
WaitDiscardBad ==
    /\ hw = "discard_bad"
    /\ bad_cb' = GetLeaves(bad_cb)
    /\ hw' = "while"
    /\ UNCHANGED <<runState, shutdown, good_cb, good_rollout, bad_rollout, answer,
                   goodSince, badSince, staleGood, staleBad>>

\* line 94: while not rospy.is_shutdown(); falling off the loop returns None
WaitCheckShutdown ==
    /\ hw = "while"
    /\ IF shutdown
       THEN hw' = "returned" /\ answer' = "none"
       ELSE hw' = "read_good" /\ answer' = answer
    /\ UNCHANGED <<runState, shutdown, good_cb, bad_cb, good_rollout, bad_rollout,
                   goodSince, badSince, staleGood, staleBad>>

\* line 95: good_rollout = self.good_rollout_callback.get()
WaitReadGood ==
    /\ hw = "read_good"
    /\ good_rollout' = GetValue(good_cb)
    /\ good_cb' = GetLeaves(good_cb)
    /\ hw' = "read_bad"
    /\ UNCHANGED <<runState, shutdown, bad_cb, bad_rollout, answer,
                   goodSince, badSince, staleGood, staleBad>>

\* line 96: bad_rollout = self.bad_rollout_callback.get()
WaitReadBad ==
    /\ hw = "read_bad"
    /\ bad_rollout' = GetValue(bad_cb)
    /\ bad_cb' = GetLeaves(bad_cb)
    /\ hw' = "decide"
    /\ UNCHANGED <<runState, shutdown, good_cb, good_rollout, answer,
                   goodSince, badSince, staleGood, staleBad>>

\* good decides whatever bad says
DecideGoodWins(g, b) ==
    IF g THEN "good" ELSE IF b THEN "bad" ELSE "poll"

\* lines 97-100: return True, return False, or go on polling
Decide(g, b) ==
    IF g /\ ~b THEN "good"
    ELSE IF b /\ ~g THEN "bad"
    ELSE "poll"

\* lines 97-100 with the values read at lines 95-96
WaitDecide ==
    /\ hw = "decide"
    /\ IF Decide(good_rollout, bad_rollout) = "poll"
       THEN hw' = "sleep" /\ answer' = answer
       ELSE hw' = "returned" /\ answer' = Decide(good_rollout, bad_rollout)
    /\ UNCHANGED <<runState, shutdown, good_cb, bad_cb, good_rollout, bad_rollout,
                   goodSince, badSince, staleGood, staleBad>>

\* line 101: rospy.sleep(0.1) returns
WaitSleep ==
    /\ hw = "sleep"
    /\ hw' = "while"
    /\ UNCHANGED <<runState, shutdown, good_cb, bad_cb, good_rollout, bad_rollout, answer,
                   goodSince, badSince, staleGood, staleBad>>

\* line 101: rospy.sleep(0.1) raises because of the shutdown
WaitSleepInterrupted ==
    /\ hw = "sleep"
    /\ shutdown
    /\ hw' = "raised"
    /\ UNCHANGED <<runState, shutdown, good_cb, bad_cb, good_rollout, bad_rollout, answer,
                   goodSince, badSince, staleGood, staleBad>>

NextGate ==
    \/ PressGood
    \/ PressBad
    \/ SignalShutdown
    \/ WaitDiscardGood
    \/ WaitDiscardBad
    \/ WaitCheckShutdown
    \/ WaitReadGood
    \/ WaitReadBad
    \/ WaitDecide
    \/ WaitSleep
    \/ WaitSleepInterrupted

\* one call of _ros_is_good_rollout, with the operator and rospy around it
SpecGate == InitGate /\ [][NextGate]_vars

\* a known control-noise kind
InitLive == Init /\ noise_valid

\* run() when no collaborator raises, no shutdown is signalled and every
\* accepted sample is finite
NextLive ==
    \/ Resolve
    \/ LoadModel
    \/ AddPrevData
    \/ AddInitData
    \/ CatchUp
    \/ LoopExit
    \/ RunItrBegin
    \/ RolloutBegin
    \/ \E noise \in 0 .. MaxNoise, collided \in BOOLEAN : Timestep(noise, collided)
    \/ RolloutFinish
    \/ RolloutRejected
    \/ RolloutAccepted(TRUE)
    \/ SaveSamples
    \/ SaveWorlds
    \/ SaveMpcs
    \/ FinalReset
    \/ SkipTraining
    \/ AddData
    \/ TrainItr

\* every call returns, so the single thread of run() always takes its next step
SpecLive == InitLive /\ [][NextLive]_vars /\ WF_vars(NextLive)

\* ------------------------------------------------------------------ claims
Range(seq) == {seq[k] : k \in DOMAIN seq}

\* the disk is as the process found it
DiskAsFound ==
    /\ ckptFiles = startCkpts
    /\ DOMAIN samplesFiles = startSamples
    /\ dirs = startDirs

\* the events of the training loop: from the first collection on
FirstCollect ==
    IF \E k \in DOMAIN events : events[k].ev = "collect"
    THEN CHOOSE k \in DOMAIN events :
            /\ events[k].ev = "collect"
            /\ \A j \in 1 .. (k - 1) : events[j].ev # "collect"
    ELSE Len(events) + 1
Prologue == SubSeq(events, 1, FirstCollect - 1)
LoopEvents == SubSeq(events, FirstCollect, Len(events))
TrainsOf(seq) == SelectSeq(seq, LAMBDA e : e.ev = "train")

\* C1: run() gets past the resolver only if model_start_itr equals
\* samples_start_itr, or is one less, or the pair is (1, 0); for every other
\* pair it stops at the assertion having loaded no checkpoint, added no data,
\* trained nothing, collected nothing and changed nothing on disk.
C1_ResolverGate ==
    pc # "start" =>
        IF \/ model_start_itr = samples_start_itr
           \/ model_start_itr = samples_start_itr - 1
           \/ (model_start_itr = 1 /\ samples_start_itr = 0)
        THEN pc # "assert_resume"
        ELSE /\ pc = "assert_resume"
             /\ loaded = None /\ aggData = <<>> /\ events = <<>>
             /\ DiskAsFound

C1_Witness ==
    /\ pc = "assert_resume"
    /\ model_start_itr = 0 /\ samples_start_itr = 2
    /\ events = <<>>

\* C2: the resolver's result depends only on which checkpoints and samples
\* files exist at indices 0..max_iter-1: model_start_itr is 1 + the highest
\* index with a checkpoint (0 and no model file if none), samples_start_itr is
\* 1 + the highest index with a samples file (0 if none); the scan leaves the
\* disk as it was.
C2_ResolverResult ==
    pc # "start" =>
        /\ model_start_itr = IF startCkpts = {} THEN 0 ELSE 1 + SetMax(startCkpts)
        /\ model_file = IF startCkpts = {} THEN None ELSE SetMax(startCkpts)
        /\ samples_start_itr = IF startSamples = {} THEN 0 ELSE 1 + SetMax(startSamples)
        /\ (pc \in {"load", "assert_resume"} => DiskAsFound)

C2_Witness ==
    /\ pc = "load"
    /\ model_file = 2 /\ 1 \notin startCkpts
    /\ samples_start_itr = 3 /\ 0 \notin startSamples
    /\ DiskAsFound

\* checkpoints exactly at 0..k-1 and samples files exactly at 0..k
ResumeShape(k) ==
    /\ startCkpts = 0 .. (k - 1)
    /\ startSamples = 0 .. k

\* C3: from checkpoints exactly at 0..k-1 and samples exactly at 0..k (k <
\* max_iter) the resolver yields model_start_itr = k, samples_start_itr = k+1;
\* exactly one training step runs before the first rollout, it writes
\* checkpoint k, and the loop starts at k+1.
C3_CatchUpOnResume ==
    \A k \in Iters : (ResumeShape(k) /\ pc # "start") =>
        /\ model_start_itr = k /\ samples_start_itr = k + 1
        /\ pc # "assert_resume"
        /\ IF pc \in {"load", "add_prev", "add_init", "catchup"}
           THEN TrainsOf(events) = <<>> /\ FirstCollect > Len(events)
           ELSE /\ Len(TrainsOf(Prologue)) = 1
                /\ TrainsOf(Prologue)[1].b = k
                /\ k \in ckptFiles
                /\ start_itr = k + 1
                /\ (LoopEvents # <<>> => LoopEvents[1] = Event("collect", k + 1, None, ""))

C3_Witness ==
    /\ ResumeShape(1)
    /\ pc = "step" /\ itr = 2
    /\ Len(TrainsOf(Prologue)) = 1

\* C4: at every moment of a run the disk holds, for each iteration, either no
\* samples file or the complete Iteration Record (samples, world metadata and
\* controller metadata), so the resolver never counts an incomplete record.
C4_RecordAtomic ==
    /\ \A i \in DOMAIN samplesFiles :
          /\ i \in DOMAIN worldsFiles
          /\ i \in DOMAIN mpcsFiles
    /\ (pc # "start" =>
          \A i \in startSamples :
              i < samples_start_itr =>
                  (i \in DOMAIN worldsFiles /\ i \in DOMAIN mpcsFiles))

\* C5: wherever a run is stopped or fails, the disk it leaves passes the
\* resolver's consistency check when the program is started again.
C5_Resumable ==
    restarts > 0 => pc # "assert_resume"

\* the answers of the gate for slot (c, r), in order
GateOf(c, r) == SelectSeq(gateLog, LAMBDA g : g.cond = c /\ g.rep = r)

\* C6: the samples file _run_itr writes for itr holds exactly
\* conditions.length x conditions.repeats samples: `repeats` for each condition,
\* in condition order, each one accepted by the quality gate, and the world and
\* controller metadata lists have the same length.
C6_RecordComplete ==
    pc = "save_worlds" =>
        /\ itr \in DOMAIN samplesFiles
        /\ Len(samplesFiles[itr]) = CondLength * Repeats
        /\ \A k \in 1 .. Len(samplesFiles[itr]) :
              /\ samplesFiles[itr][k].cond = (k - 1) \div Repeats
              /\ samplesFiles[itr][k].rep = (k - 1) % Repeats
              /\ \E j \in DOMAIN gateLog :
                    /\ gateLog[j].good
                    /\ gateLog[j].cond = samplesFiles[itr][k].cond
                    /\ gateLog[j].rep = samplesFiles[itr][k].rep
                    /\ gateLog[j].gen = samplesFiles[itr][k].gen
        /\ Len(world_infos) = Len(samplesFiles[itr])
        /\ Len(mpc_infos) = Len(samplesFiles[itr])

C6_Witness ==
    /\ pc = "save_worlds"
    /\ itr = 1
    /\ Len(samplesFiles[itr]) = CondLength * Repeats
    /\ \E k \in DOMAIN samplesFiles[itr] : samplesFiles[itr][k].gen > 0

\* C7: in one (condition, repetition) slot, K rejections followed by an
\* acceptance mean K+1 rollouts for the slot; a rejection leaves the slot as it
\* is; no rejected sample, nor its metadata, is in the lists or in the persisted
\* record; the sample kept for the slot is the (K+1)-th generated.
C7_RejectionRetriesSlot ==
    /\ \A j \in DOMAIN gateLog :
          \* the j-th rollout of the iteration is the (gen+1)-th of its slot
          /\ gateLog[j].gen =
                Len(SelectSeq(SubSeq(gateLog, 1, j - 1),
                              LAMBDA g : g.cond = gateLog[j].cond /\ g.rep = gateLog[j].rep))
          /\ ~gateLog[j].good =>
                \* the next rollout is for the same slot
                /\ IF j < Len(gateLog)
                   THEN /\ gateLog[j + 1].cond = gateLog[j].cond
                        /\ gateLog[j + 1].rep = gateLog[j].rep
                   ELSE /\ cond = gateLog[j].cond
                        /\ rep = gateLog[j].rep
                        /\ pc \in {"rollout_begin", "step", "finish", "gate"}
                \* and the rejected sample is in none of the lists
                /\ \A L \in {samples, world_infos, mpc_infos} :
                      \A k \in DOMAIN L :
                          ~(/\ L[k].cond = gateLog[j].cond
                            /\ L[k].rep = gateLog[j].rep
                            /\ L[k].gen = gateLog[j].gen)
          /\ gateLog[j].good =>
                \* K rejections, then the acceptance: K+1 rollouts, the last kept
                /\ \A i \in 1 .. (j - 1) :
                      (gateLog[i].cond = gateLog[j].cond /\ gateLog[i].rep = gateLog[j].rep)
                          => ~gateLog[i].good
                /\ \E k \in DOMAIN samples :
                      samples[k] = [cond |-> gateLog[j].cond, rep |-> gateLog[j].rep,
                                    gen |-> gateLog[j].gen]
    /\ (pc \in {"save_worlds", "save_mpcs", "final_reset"} =>
          /\ samplesFiles[itr] = samples
          /\ \A c \in 0 .. (CondLength - 1), r \in 0 .. (Repeats - 1) :
                \E k \in DOMAIN samplesFiles[itr] :
                    /\ samplesFiles[itr][k].cond = c /\ samplesFiles[itr][k].rep = r
                    /\ Len(GateOf(c, r)) = samplesFiles[itr][k].gen + 1)
    /\ (pc = "save_mpcs" => worldsFiles[itr] = world_infos)
    /\ (pc = "final_reset" => mpcsFiles[itr] = mpc_infos)

C7_Witness ==
    /\ pc = "final_reset"
    /\ \E j \in DOMAIN gateLog : ~gateLog[j].good
    /\ \E k \in DOMAIN samplesFiles[itr] :
          /\ samplesFiles[itr][k].gen = 1
          /\ Len(GateOf(samplesFiles[itr][k].cond, samplesFiles[itr][k].rep)) = 2

\* C8: with T >= 1, if is_collision first answers true at t*, the sample has
\* length t*+1, label and observation at t* are recorded, and neither evolve
\* nor set_X is called for a timestep after t*; if it never answers true the
\* sample has length T and evolve is called exactly T-1 times.
C8_Truncation ==
    /\ (pc = "finish" =>
          IF collidedAt # None
          THEN /\ t = collidedAt
               /\ DOMAIN sample_T.U = 0 .. collidedAt
               /\ DOMAIN sample_T.O = 0 .. collidedAt
               /\ DOMAIN sample_T.X = 0 .. collidedAt
               /\ Len(evolved) = collidedAt
               /\ \A k \in DOMAIN evolved : evolved[k][1] < collidedAt
          ELSE /\ t = T - 1
               /\ DOMAIN sample_T.U = 0 .. (T - 1)
               /\ DOMAIN sample_T.X = 0 .. (T - 1)
               /\ Len(evolved) = T - 1)
    /\ (pc = "gate" =>
          sample[1].len = IF collidedAt # None THEN collidedAt + 1 ELSE T)

C8_Witness ==
    /\ pc = "gate"
    /\ collidedAt = 0
    /\ sample[1].len = 1
    /\ T > 1

\* C9: with label_with_noise disabled the action recorded at each timestep is
\* the one a second, zero-noise query returns at the current state, while the
\* next state is evolve(x(t), u) for the action u of the noisy query; with
\* label_with_noise enabled the recorded action is u and the controller is
\* queried once per timestep.
C9_NoiseLabelSeparation ==
    pc \in {"step", "finish"} =>
        \A s \in DOMAIN sample_T.U :
            /\ IF label_with_noise
               THEN /\ sample_T.U[s] = uExec[s]
                    /\ queries[s] = <<"control_noise">>
               ELSE /\ sample_T.U[s] = Nominal(sample_T.X[s])
                    /\ queries[s] = <<"control_noise", "zero">>
            /\ (s + 1) \in DOMAIN sample_T.X =>
                  /\ sample_T.X[s + 1] = (sample_T.X[s] + uExec[s]) % XMod
                  /\ \E k \in DOMAIN evolved :
                        evolved[k] = <<s, sample_T.X[s], uExec[s]>>

C9_Witness ==
    /\ pc = "finish"
    /\ ~label_with_noise
    /\ \E s \in DOMAIN sample_T.U :
          /\ sample_T.U[s] # uExec[s]
          /\ (s + 1) \in DOMAIN sample_T.X
          /\ sample_T.X[s + 1] # (sample_T.X[s] + sample_T.U[s]) % XMod

\* what the training loop does for iteration i, in order (epochs left aside)
LoopStepKinds == <<"collect", "samples", "worlds", "mpcs", "add", "train">>
ExpectedLoopEvent(n) ==
    LET i == start_itr + ((n - 1) \div 6)
        kind == LoopStepKinds[((n - 1) % 6) + 1]
    IN [ev |-> kind,
        a |-> IF kind = "train" THEN i - 1 ELSE i,
        b |-> IF kind = "train" THEN i ELSE None]

\* C10: with a planner other than 'randomwalk', for every itr from the resume
\* point to max_iter-1, in this order: the Iteration Record of itr is collected
\* and persisted, its samples are added to the aggregator, one training step
\* writes checkpoint itr seeded with checkpoint itr-1; collection for itr+1
\* starts only after that training step.
C10_LoopOrder ==
    (planner_type # "randomwalk" /\ start_itr # None) =>
        /\ \A n \in DOMAIN LoopEvents :
              [ev |-> LoopEvents[n].ev, a |-> LoopEvents[n].a, b |-> LoopEvents[n].b]
                  = ExpectedLoopEvent(n)
        /\ (pc = "train" => (aggData # <<>> /\ aggData[Len(aggData)] = itr
                             /\ itr \in DOMAIN samplesFiles /\ itr \in DOMAIN mpcsFiles))
        /\ (pc = "loop" /\ itr > start_itr => (itr - 1) \in ckptFiles)
        /\ (pc = "done" => Len(LoopEvents) = 6 * (MaxIter - start_itr))

C10_Witness ==
    /\ planner_type # "randomwalk"
    /\ pc = "done"
    /\ start_itr = 0
    /\ Len(LoopEvents) = 6 * MaxIter

\* the run is past the catch-up position of lines 181-188
PastCatchUp == pc \notin {"start", "assert_resume", "load", "add_prev", "add_init", "catchup"}

\* C11 as stated: when the resolver yields the degenerate bootstrap case
\* (model_start_itr = 1, samples_start_itr = 0), a catch-up training step on
\* the aggregated dataset is run before the first iteration of the loop.
C11_CatchUpOnDegenerate ==
    (model_start_itr = 1 /\ samples_start_itr = 0 /\ PastCatchUp) =>
        Len(TrainsOf(Prologue)) = 1

\* C11 as amended: the catch-up training step on the bootstrap dataset runs
\* before the first iteration when the resolver yields (0, 0) and an external
\* bootstrap dataset is configured: one step, seeded with no checkpoint,
\* writing checkpoint 0, with the bootstrap dataset in the aggregator; in the
\* degenerate case (1, 0) checkpoint 0 is loaded and no training step runs
\* before the first iteration.
C11_BootstrapCatchUp ==
    PastCatchUp =>
        /\ (model_start_itr = 0 /\ samples_start_itr = 0 /\ init_data) =>
              /\ TrainsOf(Prologue) = <<Event("train", None, 0, "epochs")>>
              /\ aggData # <<>> /\ aggData[1] = InitDataset
              /\ loaded = None
        /\ (model_start_itr = 1 /\ samples_start_itr = 0) =>
              /\ TrainsOf(Prologue) = <<>>
              /\ loaded = 0

C11_Witness ==
    /\ model_start_itr = 1 /\ samples_start_itr = 0
    /\ init_data
    /\ pc = "step" /\ itr = 0
    /\ loaded = 0
    /\ events = <<Event("load", 0, None, ""), Event("add_init", None, None, ""),
                  Event("collect", 0, None, "")>>

\* C12: with planner_type 'randomwalk' run() never invokes a training step,
\* whatever the run directory holds at the start and whether or not an
\* external bootstrap dataset is configured.
C12_RandomwalkNeverTrains ==
    planner_type = "randomwalk" => TrainsOf(events) = <<>>

\* the Iteration Record of iteration i is on disk, whole
RecordOnDisk(i) ==
    /\ i \in DOMAIN samplesFiles /\ i \in DOMAIN worldsFiles /\ i \in DOMAIN mpcsFiles
    /\ Len(samplesFiles[i]) = CondLength * Repeats
    /\ Len(worldsFiles[i]) = CondLength * Repeats
    /\ Len(mpcsFiles[i]) = CondLength * Repeats

\* C13: if a world, dynamics or controller call raises during a rollout of
\* iteration itr, the error leaves _run_itr and run(): the rollout is not
\* retried, no rollout or training step follows, no samples, world or
\* controller metadata file of itr is written, and the files of the
\* iterations before itr are as they were.
C13_ErrorPropagates ==
    /\ [](raised # None =>
            /\ pc = "error" /\ raised = itr
            /\ ~ENABLED Next
            /\ events # <<>> /\ events[Len(events)] = Event("collect", itr, None, "")
            /\ itr \notin DOMAIN samplesFiles
            /\ itr \notin DOMAIN worldsFiles
            /\ itr \notin DOMAIN mpcsFiles
            /\ \A i \in start_itr .. (itr - 1) : RecordOnDisk(i)
            /\ \A i \in startSamples : samplesFiles[i] = FullSamples)
    /\ [][raised' # raised => (disk' = disk /\ events' = events /\ aggData' = aggData)]_vars

C13_Witness ==
    /\ raised = 1 /\ pc = "error"
    /\ start_itr = 0
    /\ RecordOnDisk(0)
    /\ 1 \notin DOMAIN samplesFiles

\* C14: every sample the quality gate accepts is checked for finiteness before
\* the repetition index advances; a non-finite accepted sample stops the run at
\* the assertion, with the slot as it was, nothing retried and no Iteration
\* Record of the iteration on disk; a rejected sample is never checked.
C14_FiniteChecked ==
    /\ \A j \in DOMAIN gateLog :
          /\ gateLog[j].good => gateLog[j].finite \in {"finite", "nonfinite"}
          /\ ~gateLog[j].good => gateLog[j].finite = "unchecked"
          /\ gateLog[j].finite = "nonfinite" =>
                /\ j = Len(gateLog)
                /\ pc = "assert_finite"
                /\ cond = gateLog[j].cond /\ rep = gateLog[j].rep
                /\ attempt = gateLog[j].gen
          /\ (gateLog[j].finite = "finite" /\ j = Len(gateLog)
              /\ pc \in {"rollout_begin", "step", "finish", "gate"}) =>
                <<cond, rep>> # <<gateLog[j].cond, gateLog[j].rep>>
    /\ (pc = "assert_finite" =>
          /\ gateLog # <<>> /\ gateLog[Len(gateLog)].finite = "nonfinite"
          /\ ~ENABLED Next
          /\ itr \notin DOMAIN samplesFiles
          /\ itr \notin DOMAIN worldsFiles
          /\ itr \notin DOMAIN mpcsFiles)

C14_Witness ==
    /\ pc = "assert_finite"
    /\ Len(gateLog) >= 3
    /\ \E j \in DOMAIN gateLog : gateLog[j].finite = "unchecked"
    /\ \E j \in DOMAIN gateLog : gateLog[j].finite = "finite"

\* C15: an unrecognized control-noise kind is a fatal configuration error at
\* construction time: with such a configuration run() loads no checkpoint,
\* adds no data, trains nothing, resets no world and creates no controller.
C15_NoiseKindRejectedAtConstruction ==
    ~noise_valid =>
        /\ loaded = None /\ aggData = <<>>
        /\ TrainsOf(events) = <<>>
        /\ resetLog = <<>> /\ created = <<>>
        /\ ckptFiles = startCkpts

\* C16: a shutdown signalled while the hardware quality gate waits ends the
\* wait with an outcome that stops the run: the rollout counts neither as
\* accepted nor as rejected and no rollout is started after it.
C16_ShutdownStopsRun ==
    shutdown =>
        /\ pc \in Terminal
        /\ \A j \in DOMAIN gateLog : gateLog[j].gen < attempt

\* the iterations the Iteration Driver was called for, in order
Collects == [k \in 1 .. Len(SelectSeq(events, LAMBDA e : e.ev = "collect")) |->
                SelectSeq(events, LAMBDA e : e.ev = "collect")[k].a]

\* C17: from any resume point s <= max_iter, when every slot's gate eventually
\* accepts and nothing raises, run() returns, having called the Iteration
\* Driver once for each itr = s, ..., max_iter-1 in increasing order (not at
\* all when s = max_iter); the loop has no other exit.
C17_Terminates ==
    /\ [](start_itr # None => (start_itr = samples_start_itr /\ start_itr <= MaxIter))
    /\ [](pc = "done" =>
            /\ itr = MaxIter
            /\ Collects = [k \in 1 .. (MaxIter - start_itr) |-> start_itr + k - 1])
    /\ [](pc \in Terminal => pc \in {"done", "assert_resume"})
    /\ ((pc = "load") ~> (pc = "done"))

C17_Witness ==
    /\ pc = "done"
    /\ start_itr = 1
    /\ Collects = <<1, 2>>
    /\ rejections = MaxRejects

\* the training steps on this directory other than the catch-up step on the
\* bootstrap dataset alone
RealTrainings == SelectSeq(epochsLog, LAMBDA e : e[1] # "bootstrap")

\* C18: on a run directory that started empty, the first training step
\* performed (after the bootstrap, if any) is the only one that uses
\* init_epochs; every later one, in the same process or after a restart, uses
\* the standard epoch count.
C18_InitEpochsOnce ==
    \A k \in DOMAIN RealTrainings :
        (RealTrainings[k][2] = "init_epochs") <=> (k = 1)

\* C19: every training step run() invokes is seeded with no checkpoint or with
\* a checkpoint that is on disk at that moment and whose iteration index is
\* less than the index of the checkpoint it writes.
C19_SeedExists ==
    [][Len(TrainsOf(events')) > Len(TrainsOf(events)) =>
          LET e == events'[Len(events')]
          IN  \/ e.a = None
              \/ (e.a \in ckptFiles /\ e.a < e.b)]_vars

\* what the aggregator received: samples files by iteration, and the
\* bootstrap dataset
SamplesAdded == SelectSeq(aggData, LAMBDA a : a # InitDataset)
InitAdded == SelectSeq(aggData, LAMBDA a : a = InitDataset)

\* C20: when a training step starts, the aggregator has been handed the
\* samples file of every iteration the step covers exactly once, in order,
\* and the bootstrap dataset at most once: iterations 0..itr at the step of
\* iteration itr in the loop, 0..model_start_itr at the catch-up step of a
\* resume (none at the catch-up step on the bootstrap dataset alone); on a
\* directory without gaps every file handed over exists.
C20_AggregatedOnce ==
    /\ Len(InitAdded) <= 1
    /\ (pc = "train" =>
          /\ SamplesAdded = [k \in 1 .. (itr + 1) |-> k - 1]
          /\ (startSamples = 0 .. (samples_start_itr - 1) =>
                \A i \in 0 .. itr : i \in DOMAIN samplesFiles))
    /\ ((pc = "catchup" /\ model_start_itr = samples_start_itr - 1) =>
          /\ SamplesAdded = [k \in 1 .. (model_start_itr + 1) |-> k - 1]
          /\ (startSamples = 0 .. (samples_start_itr - 1) =>
                \A i \in 0 .. model_start_itr : i \in DOMAIN samplesFiles))
    /\ ((pc = "catchup" /\ samples_start_itr = 0) =>
          (SamplesAdded = <<>> /\ Len(InitAdded) = IF init_data THEN 1 ELSE 0))

C20_Witness ==
    /\ pc = "train"
    /\ start_itr = 1 /\ itr = 2
    /\ model_start_itr = 0
    /\ aggData = <<0, InitDataset, 1, 2>>

\* C21: when samples_start_itr > 0, run() checks that the samples file of every
\* iteration 0..samples_start_itr-1 exists before handing the list to the
\* aggregator, and stops at a fatal assertion when one is missing: with a gap
\* below the highest samples file nothing is handed over and the run goes no
\* further than the check.
C21_PrevSamplesVerified ==
    (pc # "start" /\ \E i \in 0 .. (samples_start_itr - 1) : i \notin startSamples) =>
        /\ aggData = <<>>
        /\ pc \in {"assert_resume", "load", "add_prev"}

\* the slots of the rollout attempts begun in this iteration, in order
AttemptsBegun ==
    [k \in 1 .. Len(gateLog) |-> <<gateLog[k].cond, gateLog[k].rep>>]
        \o (IF pc \in {"step", "finish", "gate", "config_error"}
            THEN <<<<cond, rep>>>> ELSE <<>>)

\* C22: the world resets of one iteration are: one reset(itr, cond, rep)
\* before each rollout attempt, retries included, whose slot is (0, 0) or when
\* the world is randomized, and none before any other attempt; then exactly
\* one reset(itr, 0, 0), after the Iteration Record is on disk, as the last
\* action of the iteration.
C22_WorldResets ==
    /\ [](pc \in {"rollout_begin", "step", "finish", "gate", "config_error",
                  "assert_finite", "save_samples", "save_worlds", "save_mpcs",
                  "final_reset"} =>
            resetLog = SelectSeq(AttemptsBegun,
                                 LAMBDA s : (s[1] = 0 /\ s[2] = 0) \/ randomize))
    /\ [][pc = "final_reset" =>
            /\ itr \in DOMAIN samplesFiles
            /\ itr \in DOMAIN worldsFiles
            /\ itr \in DOMAIN mpcsFiles
            /\ resetLog' = Append(resetLog, <<0, 0>>)
            /\ pc' = "after_itr"]_vars
    /\ [][resetLog' # resetLog =>
            \/ pc \in {"rollout_begin", "final_reset"}
            \/ resetLog' = <<>>]_vars

C22_Witness ==
    /\ pc = "after_itr"
    /\ ~randomize
    /\ rejections = 1
    /\ \E k \in DOMAIN samplesFiles[itr] :
          samplesFiles[itr][k] = [cond |-> 0, rep |-> 0, gen |-> 1]
    /\ resetLog = <<<<0, 0>>, <<0, 0>>, <<0, 0>>>>

\* C23: a new controller instance and a new control-noise generator are
\* constructed for every rollout attempt, the retry after a rejection
\* included; no generator is used in more than one rollout.
C23_FreshInstances ==
    /\ (pc \in {"step", "finish", "gate"} =>
          /\ mpcMade = Len(gateLog) + 1 /\ mpc_policy = mpcMade
          /\ noiseMade = Len(gateLog) + 1 /\ control_noise = noiseMade)
    /\ \A u \in noiseUse, v \in noiseUse : u[1] = v[1] => u[2] = v[2]
    /\ \A u \in noiseUse : u[1] = u[2]

C23_Witness ==
    /\ pc = "finish"
    /\ Len(gateLog) = 1 /\ ~gateLog[1].good
    /\ control_noise = 2 /\ mpc_policy = 2
    /\ noiseUse = {<<1, 1>>, <<2, 2>>}

====
